---- MODULE Spec2Model ----
(***************************************************************************)
(* Matrix multiplication with simulated MapReduce logic (src/main.py).     *)
(*                                                                         *)
(* The program reads two matrices from a text file, emits for every output *)
(* coordinate (i, j) the tagged contributions ('A', k, A[i][k]) and        *)
(* ('B', k, B[k][j]) (map_phase), and folds every group into the dot       *)
(* product written to result_matrix[i][j] (reduce_phase).                  *)
(*                                                                         *)
(* Python lists are modelled as sequences; the code's indices are 0-based  *)
(* and are kept 0-based in keys, shared indices and loop counters (Cell    *)
(* does the shift).  Matrix entries are integers: the arithmetic is exact. *)
(***************************************************************************)
EXTENDS Integers, Sequences, FiniteSets, TLC

(***************************************************************************)
(* Bounds of the enumerated inputs.                                        *)
(***************************************************************************)
\* Largest row count and column count of an enumerated matrix.
MaxDim == 2
\* Largest number of entries of an enumerated matrix.
MaxCells == 4
\* Entries of the enumerated matrices range over 0..MaxVal.
MaxVal == 1
\* Largest m*n*p of the inputs whose records are emitted in arbitrary order.
MaxShuffleVolume == 3
\* Largest m*n*p of the inputs reduced by concurrent workers.
MaxParVolume == 4
\* Number of concurrent reducer workers.
NumWorkers == 2
\* Longest group handed directly to the reducer, and its largest shared index.
MaxGroupLen == 3
MaxK == 1
\* Largest number of rows of each matrix in an input file, and longest row.
MaxFileRows == 2
MaxRowLen == 3

VARIABLES
    pc,             \* position of the program
    lines,          \* the input file: a sequence of lines, each a sequence of numbers
    matrix_a,       \* main.py:190 / map_phase argument
    matrix_b,       \* main.py:190 / map_phase argument
    mapped_values,  \* main.py:82  defaultdict(list): key -> list of (matrix, k, val)
    dimensions,     \* main.py:107 (m, p)
    loop,           \* the three loop counters of the running map loop
    result_matrix,  \* main.py:121
    pending,        \* main.py:123 the keys the reduce loop has still to visit
    assigned,       \* number of executions of main.py:136 per cell
    output,         \* content of output.txt (main.py:208)
    error,          \* the exception raised, if any
    unemitted,      \* records of the mapper not yet handed to the shuffle
    workers         \* local variables of the concurrent reducer workers

vars == <<pc, lines, matrix_a, matrix_b, mapped_values, dimensions, loop,
          result_matrix, pending, assigned, output, error, unemitted, workers>>

(***************************************************************************)
(* Python values.                                                          *)
(***************************************************************************)
\* len(matrix), len(matrix[0]) and matrix[i][k] with 0-based i, k.
Cell(M, i, k) == M[i + 1][k + 1]
HasCell(M, i, k) == i + 1 <= Len(M) /\ k + 1 <= Len(M[i + 1])

\* An empty dict / defaultdict.
EmptyDict == [x \in {} |-> <<>>]

NoError == [type |-> "none", a_shape |-> <<0, 0>>, b_shape |-> <<0, 0>>]
IndexError == [type |-> "IndexError", a_shape |-> <<0, 0>>, b_shape |-> <<0, 0>>]
\* main.py:80 the message names both shapes: A is m x n, B is len(B) x p.
ValueError(m, n, rows_b, p) ==
    [type |-> "ValueError", a_shape |-> <<m, n>>, b_shape |-> <<rows_b, p>>]

NoOutput == <<"no file">>
NoLoop == <<>>
NoWorkers == [w \in {} |-> <<>>]

(***************************************************************************)
(* map_phase (main.py:60-107).                                             *)
(***************************************************************************)
\* main.py:79 the validation of the contraction dimension.
IncompatibleRowsOfA(A, B) == Len(B) # Len(A)
Incompatible(A, B) == Len(B) # Len(A[1])

\* main.py:89 / main.py:100
KeyOf(i, j) == <<i, j>>

\* main.py:90
ValueA(A, i, k) == <<"A", k, Cell(A, i, k)>>

\* main.py:101
ValueBTaggedByColumn(B, k, j) == <<"B", j, Cell(B, k, j)>>
ValueB(B, k, j) == <<"B", k, Cell(B, k, j)>>

\* main.py:91 / main.py:102  mapped_values[key].append(value) on a defaultdict(list)
Emit(mv, key, value) ==
    [x \in DOMAIN mv \cup {key} |->
        IF x = key
        THEN Append(IF key \in DOMAIN mv THEN mv[key] ELSE <<>>, value)
        ELSE mv[x]]

\* The successor of the counters <<x, y, z>> of three nested loops
\* for x in range(d1): for y in range(d2): for z in range(d3); NoLoop at the end.
NextIdx(idx, d1, d2, d3) ==
    IF idx[3] + 1 < d3 THEN <<idx[1], idx[2], idx[3] + 1>>
    ELSE IF idx[2] + 1 < d2 THEN <<idx[1], idx[2] + 1, 0>>
    ELSE IF idx[1] + 1 < d1 THEN <<idx[1] + 1, 0, 0>>
    ELSE NoLoop

\* main.py:74-82
MapEnter ==
    /\ pc = "map_enter"
    /\ IF Len(matrix_a) = 0 \/ Len(matrix_b) = 0
       THEN \* matrix_a[0] (line 75) or matrix_b[0] (line 76) of an empty list
            /\ pc' = "failed"
            /\ error' = IndexError
            /\ UNCHANGED <<mapped_values, loop>>
       ELSE LET m == Len(matrix_a)
                n == Len(matrix_a[1])
                p == Len(matrix_b[1])
            IN  IF Incompatible(matrix_a, matrix_b)
                THEN /\ pc' = "failed"
                     /\ error' = ValueError(m, n, Len(matrix_b), p)
                     /\ UNCHANGED <<mapped_values, loop>>
                ELSE /\ mapped_values' = EmptyDict
                     /\ error' = NoError
                     /\ IF m * n * p = 0
                        THEN pc' = "map_return" /\ loop' = NoLoop
                        ELSE pc' = "map_a" /\ loop' = <<0, 0, 0>>
    /\ UNCHANGED <<lines, matrix_a, matrix_b, dimensions, result_matrix, pending,
                   assigned, output, unemitted, workers>>

\* main.py:86-91 one iteration of the innermost loop over (i, k, j)
MapA ==
    /\ pc = "map_a"
    /\ LET i == loop[1]
           k == loop[2]
           j == loop[3]
           m == Len(matrix_a)
           n == Len(matrix_a[1])
           p == Len(matrix_b[1])
       IN  IF ~HasCell(matrix_a, i, k)
           THEN /\ pc' = "failed"
                /\ error' = IndexError
                /\ UNCHANGED <<mapped_values, loop>>
           ELSE /\ mapped_values' = Emit(mapped_values, KeyOf(i, j), ValueA(matrix_a, i, k))
                /\ error' = error
                /\ IF NextIdx(loop, m, n, p) = NoLoop
                   THEN pc' = "map_b" /\ loop' = <<0, 0, 0>>
                   ELSE pc' = "map_a" /\ loop' = NextIdx(loop, m, n, p)
    /\ UNCHANGED <<lines, matrix_a, matrix_b, dimensions, result_matrix, pending,
                   assigned, output, unemitted, workers>>

\* main.py:97-102 one iteration of the innermost loop over (k, j, i)
MapB ==
    /\ pc = "map_b"
    /\ LET k == loop[1]
           j == loop[2]
           i == loop[3]
           m == Len(matrix_a)
           n == Len(matrix_a[1])
           p == Len(matrix_b[1])
       IN  IF ~HasCell(matrix_b, k, j)
           THEN /\ pc' = "failed"
                /\ error' = IndexError
                /\ UNCHANGED <<mapped_values, loop>>
           ELSE /\ mapped_values' = Emit(mapped_values, KeyOf(i, j), ValueB(matrix_b, k, j))
                /\ error' = error
                /\ IF NextIdx(loop, n, p, m) = NoLoop
                   THEN pc' = "map_return" /\ loop' = NoLoop
                   ELSE pc' = "map_b" /\ loop' = NextIdx(loop, n, p, m)
    /\ UNCHANGED <<lines, matrix_a, matrix_b, dimensions, result_matrix, pending,
                   assigned, output, unemitted, workers>>

\* main.py:107 return mapped_values, (m, p)
MapReturn ==
    /\ pc = "map_return"
    /\ dimensions' = <<Len(matrix_a), Len(matrix_b[1])>>
    /\ pc' = "reduce_enter"
    /\ UNCHANGED <<lines, matrix_a, matrix_b, mapped_values, loop, result_matrix,
                   pending, assigned, output, error, unemitted, workers>>

\* The whole of main.py:86-91 and of main.py:97-102 on well-formed input.
RECURSIVE LoopA(_, _, _, _)
LoopA(mv, A, B, idx) ==
    IF idx = NoLoop THEN mv
    ELSE LoopA(Emit(mv, KeyOf(idx[1], idx[3]), ValueA(A, idx[1], idx[2])), A, B,
               NextIdx(idx, Len(A), Len(A[1]), Len(B[1])))

RECURSIVE LoopB(_, _, _, _)
LoopB(mv, A, B, idx) ==
    IF idx = NoLoop THEN mv
    ELSE LoopB(Emit(mv, KeyOf(idx[3], idx[2]), ValueB(B, idx[1], idx[2])), A, B,
               NextIdx(idx, Len(A[1]), Len(B[1]), Len(A)))

\* mapped_values as map_phase returns it for rectangular, compatible A and B.
MapPhase(A, B) == LoopB(LoopA(EmptyDict, A, B, <<0, 0, 0>>), A, B, <<0, 0, 0>>)

(***************************************************************************)
(* reduce_phase (main.py:110-146).                                         *)
(***************************************************************************)
\* main.py:121 [[0.0 for _ in range(p)] for _ in range(m)]
ZeroMatrixTransposed(m, p) == [i \in 1..p |-> [j \in 1..m |-> 0]]
ZeroMatrix(m, p) == [i \in 1..m |-> [j \in 1..p |-> 0]]

\* Lexicographic order of the keys (i, j), as sorted() orders tuples.
KeyLess(x, y) == x[1] < y[1] \/ (x[1] = y[1] /\ x[2] < y[2])

\* main.py:123 sorted(mapped_values.items()): the keys in ascending order.
RECURSIVE SortedKeys(_)
SortedKeys(S) ==
    IF S = {} THEN <<>>
    ELSE LET least == CHOOSE x \in S : \A y \in S \ {x} : KeyLess(x, y)
         IN  <<least>> \o SortedKeys(S \ {least})

\* A dict: its keys in insertion order and its values.  d[k] = v keeps the
\* place of a key that is already present and replaces its value.
NewDict == [keys |-> <<>>, vals |-> EmptyDict]
DictPut(d, k, v) ==
    [keys |-> IF k \in DOMAIN d.vals THEN d.keys ELSE Append(d.keys, k),
     vals |-> [x \in DOMAIN d.vals \cup {k} |-> IF x = k THEN v ELSE d.vals[x]]]

\* main.py:127 / main.py:128 {k: val for (matrix, k, val) in values if matrix == origin}
RECURSIVE ValuesOf(_, _, _)
ValuesOf(values, origin, d) ==
    IF values = <<>> THEN d
    ELSE LET r == Head(values)
         IN  ValuesOf(Tail(values), origin,
                      IF r[1] = origin THEN DictPut(d, r[2], r[3]) ELSE d)

\* main.py:133-134 the body of the loop over a_values.keys()
AccumulateMissingAsOne(dot_product, a_values, b_values, k) ==
    dot_product + a_values.vals[k] * (IF k \in DOMAIN b_values.vals THEN b_values.vals[k] ELSE 1)
AccumulateSum(dot_product, a_values, b_values, k) ==
    IF k \in DOMAIN b_values.vals
    THEN dot_product + a_values.vals[k] + b_values.vals[k]
    ELSE dot_product
Accumulate(dot_product, a_values, b_values, k) ==
    IF k \in DOMAIN b_values.vals
    THEN dot_product + a_values.vals[k] * b_values.vals[k]
    ELSE dot_product

\* main.py:131-134 from position pos of a_values.keys() on
RECURSIVE DotFrom(_, _, _, _)
DotFrom(dot_product, a_values, b_values, pos) ==
    IF pos > Len(a_values.keys) THEN dot_product
    ELSE DotFrom(Accumulate(dot_product, a_values, b_values, a_values.keys[pos]),
                 a_values, b_values, pos + 1)

\* The same loop pairing the A and B values by their position in the group.
RECURSIVE DotByPosition(_, _, _, _)
DotByPosition(dot_product, a_values, b_values, pos) ==
    IF pos > Len(a_values.keys) \/ pos > Len(b_values.keys) THEN dot_product
    ELSE DotByPosition(dot_product + a_values.vals[a_values.keys[pos]]
                                     * b_values.vals[b_values.keys[pos]],
                       a_values, b_values, pos + 1)

\* main.py:127-134 the cell value of one group
ReduceGroupByPosition(values) ==
    DotByPosition(0, ValuesOf(values, "A", NewDict), ValuesOf(values, "B", NewDict), 1)
ReduceGroup(values) ==
    DotFrom(0, ValuesOf(values, "A", NewDict), ValuesOf(values, "B", NewDict), 1)

\* main.py:124 i, j = key: the cell that main.py:136 assigns
WriteTargetFirstColumn(key) == <<key[1], 0>>
WriteTarget(key) == key

\* main.py:136 result_matrix[i][j] = dot_product
AssignCell(rm, cell, v) == [rm EXCEPT ![cell[1] + 1][cell[2] + 1] = v]

\* main.py:120-123 up to the first iteration of the loop
ReduceEnter ==
    /\ pc = "reduce_enter"
    /\ result_matrix' = ZeroMatrix(dimensions[1], dimensions[2])
    /\ pending' = SortedKeys(DOMAIN mapped_values)
    /\ assigned' = [c \in (0..(dimensions[1] - 1)) \X (0..(dimensions[2] - 1)) |-> 0]
    /\ pc' = "reduce"
    /\ UNCHANGED <<lines, matrix_a, matrix_b, mapped_values, dimensions, loop,
                   output, error, unemitted, workers>>

\* main.py:123-136 one iteration of the loop over the sorted keys
ReduceKey ==
    /\ pc = "reduce"
    /\ pending # <<>>
    /\ LET key == Head(pending)
           dot_product == ReduceGroup(mapped_values[key])
       IN  /\ result_matrix' = AssignCell(result_matrix, WriteTarget(key), dot_product)
           /\ assigned' = [c \in DOMAIN assigned |->
                             IF c = WriteTarget(key) THEN assigned[c] + 1 ELSE assigned[c]]
    /\ pending' = Tail(pending)
    /\ UNCHANGED <<pc, lines, matrix_a, matrix_b, mapped_values, dimensions, loop,
                   output, error, unemitted, workers>>

\* main.py:146 return result_matrix
ReduceReturn ==
    /\ pc = "reduce"
    /\ pending = <<>>
    /\ \A w \in DOMAIN workers : workers[w].pcw = "idle"
    /\ pc' = "returned"
    /\ UNCHANGED <<lines, matrix_a, matrix_b, mapped_values, dimensions, loop,
                   result_matrix, pending, assigned, output, error, unemitted, workers>>

\* The whole loop main.py:123-136 over the keys in the order given.
RECURSIVE ReduceLoop(_, _, _)
ReduceLoop(rm, mv, keys) ==
    IF keys = <<>> THEN rm
    ELSE ReduceLoop(AssignCell(rm, WriteTarget(Head(keys)), ReduceGroup(mv[Head(keys)])),
                    mv, Tail(keys))

\* result_matrix as reduce_phase returns it.
ReducePhase(mv, dims) ==
    ReduceLoop(ZeroMatrix(dims[1], dims[2]), mv, SortedKeys(DOMAIN mv))

(***************************************************************************)
(* map_phase followed by reduce_phase on enumerated matrices.              *)
(***************************************************************************)
Vals == 0..MaxVal
Shapes == {s \in (1..MaxDim) \X (1..MaxDim) : s[1] * s[2] <= MaxCells}
Matrices(m, n) == [1..m -> [1..n -> Vals]]
InputMatrices == UNION {Matrices(s[1], s[2]) : s \in Shapes}

\* The scenarios of the specification, and one with negative entries.
ScenarioInputs ==
    { << <<<<1, 2>>, <<3, 4>>>>, <<<<5, 6>>, <<7, 8>>>> >>,
      << <<<<1, 0, 0>>>>, <<<<2>>, <<0>>, <<0>>>> >>,
      << <<<<1, 2, 3>>, <<4, 5, 6>>>>, <<<<1, 2>>, <<3, 4>>>> >>,
      << <<<<3, 4>>, <<5, 6>>, <<7, 8>>>>, <<<<1, 0>>, <<0, 1>>>> >>,
      << <<<<-1, 2>>, <<3, -4>>>>, <<<<2, -3>>, <<-5, 7>>>> >> }

InitMR ==
    /\ \E pair \in (InputMatrices \X InputMatrices) \cup ScenarioInputs :
          /\ matrix_a = pair[1]
          /\ matrix_b = pair[2]
    /\ pc = "map_enter"
    /\ lines = <<>>
    /\ mapped_values = EmptyDict
    /\ dimensions = <<0, 0>>
    /\ loop = NoLoop
    /\ result_matrix = <<>>
    /\ pending = <<>>
    /\ assigned = EmptyDict
    /\ output = NoOutput
    /\ error = NoError
    /\ unemitted = {}
    /\ workers = NoWorkers

NextMR == MapEnter \/ MapA \/ MapB \/ MapReturn \/ ReduceEnter \/ ReduceKey \/ ReduceReturn

SpecMR == InitMR /\ [][NextMR]_vars

(***************************************************************************)
(* Reference values.                                                       *)
(***************************************************************************)
Rectangular(M) == Len(M) >= 1 /\ Len(M[1]) >= 1 /\ \A r \in 1..Len(M) : Len(M[r]) = Len(M[1])
Compatible(A, B) == Rectangular(A) /\ Rectangular(B) /\ Len(B) = Len(A[1])

RECURSIVE SumTo(_, _, _, _, _)
SumTo(A, B, i, j, n) ==
    IF n = 0 THEN 0 ELSE SumTo(A, B, i, j, n - 1) + A[i][n] * B[n][j]

\* The standard matrix product (1-based).
MatMul(A, B) == [i \in 1..Len(A) |-> [j \in 1..Len(B[1]) |-> SumTo(A, B, i, j, Len(B))]]

(***************************************************************************)
(* reduce_phase on one arbitrary group, well formed or not.                *)
(***************************************************************************)
GroupVals == (-1)..MaxVal
GroupRecords == {"A", "B"} \X (0..MaxK) \X GroupVals
Groups == UNION {[1..len -> GroupRecords] : len \in 0..MaxGroupLen}

InitReduce ==
    /\ \E group \in Groups : mapped_values = [key \in {KeyOf(0, 0)} |-> group]
    /\ dimensions = <<1, 1>>
    /\ pc = "reduce_enter"
    /\ lines = <<>>
    /\ matrix_a = <<>>
    /\ matrix_b = <<>>
    /\ loop = NoLoop
    /\ result_matrix = <<>>
    /\ pending = <<>>
    /\ assigned = EmptyDict
    /\ output = NoOutput
    /\ error = NoError
    /\ unemitted = {}
    /\ workers = NoWorkers

NextReduce == ReduceEnter \/ ReduceKey \/ ReduceReturn

SpecReduce == InitReduce /\ [][NextReduce]_vars

(***************************************************************************)
(* The records of the mapper handed to the shuffle in an arbitrary order.  *)
(***************************************************************************)
\* The matrix whose entries count up from start + 1 in row-major order.
CountingMatrix(rows, cols, start) ==
    [i \in 1..rows |-> [k \in 1..cols |-> start + (i - 1) * cols + k]]

Volumes(max) ==
    {d \in (1..max) \X (1..max) \X (1..max) : d[1] * d[2] * d[3] <= max}

CountingInputs(max) ==
    {<<CountingMatrix(d[1], d[2], s), CountingMatrix(d[2], d[3], s + d[1] * d[2])>> :
        d \in Volumes(max), s \in Vals}

\* main.py:86-91 and main.py:97-102: every (key, value) pair that map_phase emits.
Records(A, B) ==
    LET m == Len(A)
        n == Len(A[1])
        p == Len(B[1])
    IN  {<<KeyOf(i, j), ValueA(A, i, k)>> : i \in 0..(m - 1), k \in 0..(n - 1), j \in 0..(p - 1)}
        \cup
        {<<KeyOf(i, j), ValueB(B, k, j)>> : i \in 0..(m - 1), k \in 0..(n - 1), j \in 0..(p - 1)}

InitShuffle ==
    /\ \E pair \in CountingInputs(MaxShuffleVolume) :
          /\ matrix_a = pair[1]
          /\ matrix_b = pair[2]
          /\ unemitted = Records(pair[1], pair[2])
    /\ pc = "shuffle"
    /\ lines = <<>>
    /\ mapped_values = EmptyDict
    /\ dimensions = <<0, 0>>
    /\ loop = NoLoop
    /\ result_matrix = <<>>
    /\ pending = <<>>
    /\ assigned = EmptyDict
    /\ output = NoOutput
    /\ error = NoError
    /\ workers = NoWorkers

\* main.py:91 / main.py:102 for any one of the records still to be grouped
ShuffleEmit ==
    /\ pc = "shuffle"
    /\ \E r \in unemitted :
          /\ mapped_values' = Emit(mapped_values, r[1], r[2])
          /\ unemitted' = unemitted \ {r}
    /\ UNCHANGED <<pc, lines, matrix_a, matrix_b, dimensions, loop, result_matrix,
                   pending, assigned, output, error, workers>>

\* main.py:107 once every record is grouped
ShuffleReturn ==
    /\ pc = "shuffle"
    /\ unemitted = {}
    /\ dimensions' = <<Len(matrix_a), Len(matrix_b[1])>>
    /\ pc' = "reduce_enter"
    /\ UNCHANGED <<lines, matrix_a, matrix_b, mapped_values, loop, result_matrix,
                   pending, assigned, output, error, unemitted, workers>>

NextShuffle == ShuffleEmit \/ ShuffleReturn \/ ReduceEnter \/ ReduceKey \/ ReduceReturn

SpecShuffle == InitShuffle /\ [][NextShuffle]_vars

(***************************************************************************)
(* The iterations of the reduce loop run by concurrent workers, each       *)
(* iteration split into its statements.                                    *)
(***************************************************************************)
Idle ==
    [pcw |-> "idle", key |-> <<>>, a_values |-> NewDict, b_values |-> NewDict,
     dot_product |-> 0, pos |-> 0]

RemoveAt(seq, idx) == SubSeq(seq, 1, idx - 1) \o SubSeq(seq, idx + 1, Len(seq))

InitPar ==
    /\ \E pair \in CountingInputs(MaxParVolume) :
          /\ matrix_a = pair[1]
          /\ matrix_b = pair[2]
          /\ mapped_values = MapPhase(pair[1], pair[2])
          /\ dimensions = <<Len(pair[1]), Len(pair[2][1])>>
    /\ pc = "reduce_enter"
    /\ lines = <<>>
    /\ loop = NoLoop
    /\ result_matrix = <<>>
    /\ pending = <<>>
    /\ assigned = EmptyDict
    /\ output = NoOutput
    /\ error = NoError
    /\ unemitted = {}
    /\ workers = [w \in 1..NumWorkers |-> Idle]

\* main.py:123-124 a worker takes any key that no worker has taken
WorkerTake(w) ==
    /\ pc = "reduce"
    /\ workers[w].pcw = "idle"
    /\ \E idx \in 1..Len(pending) :
          /\ workers' = [workers EXCEPT ![w] = [Idle EXCEPT !.pcw = "split", !.key = pending[idx]]]
          /\ pending' = RemoveAt(pending, idx)
    /\ UNCHANGED <<pc, lines, matrix_a, matrix_b, mapped_values, dimensions, loop,
                   result_matrix, assigned, output, error, unemitted>>

\* main.py:127-131
WorkerSplit(w) ==
    /\ pc = "reduce"
    /\ workers[w].pcw = "split"
    /\ workers' = [workers EXCEPT ![w] =
                     [pcw |-> "accumulate",
                      key |-> workers[w].key,
                      a_values |-> ValuesOf(mapped_values[workers[w].key], "A", NewDict),
                      b_values |-> ValuesOf(mapped_values[workers[w].key], "B", NewDict),
                      dot_product |-> 0,
                      pos |-> 1]]
    /\ UNCHANGED <<pc, lines, matrix_a, matrix_b, mapped_values, dimensions, loop,
                   result_matrix, pending, assigned, output, error, unemitted>>

\* main.py:132-134 one iteration of the loop over a_values.keys()
WorkerAccumulate(w) ==
    /\ pc = "reduce"
    /\ workers[w].pcw = "accumulate"
    /\ workers[w].pos <= Len(workers[w].a_values.keys)
    /\ workers' = [workers EXCEPT
                     ![w].dot_product = Accumulate(@, workers[w].a_values, workers[w].b_values,
                                                   workers[w].a_values.keys[workers[w].pos]),
                     ![w].pos = @ + 1]
    /\ UNCHANGED <<pc, lines, matrix_a, matrix_b, mapped_values, dimensions, loop,
                   result_matrix, pending, assigned, output, error, unemitted>>

\* main.py:136
WorkerWrite(w) ==
    /\ pc = "reduce"
    /\ workers[w].pcw = "accumulate"
    /\ workers[w].pos > Len(workers[w].a_values.keys)
    /\ result_matrix' = AssignCell(result_matrix, WriteTarget(workers[w].key),
                                   workers[w].dot_product)
    /\ assigned' = [c \in DOMAIN assigned |->
                      IF c = WriteTarget(workers[w].key) THEN assigned[c] + 1 ELSE assigned[c]]
    /\ workers' = [workers EXCEPT ![w] = Idle]
    /\ UNCHANGED <<pc, lines, matrix_a, matrix_b, mapped_values, dimensions, loop,
                   pending, output, error, unemitted>>

NextPar ==
    \/ ReduceEnter
    \/ \E w \in 1..NumWorkers : WorkerTake(w)
    \/ \E w \in 1..NumWorkers : WorkerSplit(w)
    \/ \E w \in 1..NumWorkers : WorkerAccumulate(w)
    \/ \E w \in 1..NumWorkers : WorkerWrite(w)
    \/ ReduceReturn

SpecPar == InitPar /\ [][NextPar]_vars

(***************************************************************************)
(* main (main.py:174-221): read input.txt, map, reduce, write output.txt.  *)
(***************************************************************************)
\* main.py:24 the lines that are not blank
NonBlank(ls) == SelectSeq(ls, LAMBDA l : l # <<>>)

\* main.py:34-42 the index at which the first loop stops
RECURSIVE FirstLoopEnd(_, _)
FirstLoopEnd(rows, idx) ==
    IF idx > Len(rows) THEN idx
    ELSE IF Len(rows[idx]) # Len(rows[1]) /\ idx > 1 THEN idx
    ELSE FirstLoopEnd(rows, idx + 1)

\* main.py:22-50 (matrix_a, matrix_b)
ReadMatrices(ls) ==
    LET rows == NonBlank(ls)
        stop == FirstLoopEnd(rows, 1)
    IN  <<SubSeq(rows, 1, stop - 1), SubSeq(rows, stop, Len(rows))>>

\* The row of the given length that is the r-th row of a file.
FileRow(r, len) == [c \in 1..len |-> (r - 1) * MaxRowLen + c]

RowLengths == UNION {[1..rows -> 1..MaxRowLen] : rows \in 1..MaxFileRows}

\* A file in the documented format: the rows of the first matrix, an empty
\* line, the rows of the second matrix.
FileOf(lens_a, lens_b) ==
    [r \in 1..Len(lens_a) |-> FileRow(r, lens_a[r])]
    \o << <<>> >> \o
    [r \in 1..Len(lens_b) |-> FileRow(Len(lens_a) + r, lens_b[r])]

Files == {FileOf(la, lb) : la \in RowLengths, lb \in RowLengths}

Init ==
    /\ lines \in Files
    /\ pc = "read"
    /\ matrix_a = <<>>
    /\ matrix_b = <<>>
    /\ mapped_values = EmptyDict
    /\ dimensions = <<0, 0>>
    /\ loop = NoLoop
    /\ result_matrix = <<>>
    /\ pending = <<>>
    /\ assigned = EmptyDict
    /\ output = NoOutput
    /\ error = NoError
    /\ unemitted = {}
    /\ workers = NoWorkers

\* main.py:190
Read ==
    /\ pc = "read"
    /\ matrix_a' = ReadMatrices(lines)[1]
    /\ matrix_b' = ReadMatrices(lines)[2]
    /\ pc' = "map_enter"
    /\ UNCHANGED <<lines, mapped_values, dimensions, loop, result_matrix, pending,
                   assigned, output, error, unemitted, workers>>

\* main.py:208
Write ==
    /\ pc = "returned"
    /\ output' = result_matrix
    /\ pc' = "success"
    /\ UNCHANGED <<lines, matrix_a, matrix_b, mapped_values, dimensions, loop,
                   result_matrix, pending, assigned, error, unemitted, workers>>

Next ==
    \/ Read
    \/ MapEnter \/ MapA \/ MapB \/ MapReturn
    \/ ReduceEnter \/ ReduceKey \/ ReduceReturn
    \/ Write

Spec == Init /\ [][Next]_vars

(***************************************************************************)
(* Properties.                                                             *)
(***************************************************************************)
Identity(n) == [i \in 1..n |-> [j \in 1..n |-> IF i = j THEN 1 ELSE 0]]

\* C1: for rectangular A (m x n) and B (n x p), map_phase followed by
\* reduce_phase returns an m x p matrix whose cell (i, j) is the sum over k of
\* A[i][k] * B[k][j]; in particular A times the identity is A.
C1_ResultIsMatrixProduct ==
    (pc = "returned" /\ Compatible(matrix_a, matrix_b)) =>
        /\ Len(result_matrix) = Len(matrix_a)
        /\ \A i \in 1..Len(result_matrix) : Len(result_matrix[i]) = Len(matrix_b[1])
        /\ result_matrix = MatMul(matrix_a, matrix_b)
        /\ matrix_b = Identity(Len(matrix_b)) => result_matrix = matrix_a

C1_Witness ==
    /\ pc = "returned"
    /\ matrix_a = <<<<1, 2>>, <<3, 4>>>>
    /\ matrix_b = <<<<5, 6>>, <<7, 8>>>>
    /\ result_matrix = <<<<19, 22>>, <<43, 50>>>>

\* The positions of a group holding a record of the given origin and shared index.
Positions(values, origin, k) ==
    {pos \in 1..Len(values) : values[pos][1] = origin /\ values[pos][2] = k}

RECURSIVE TotalRecords(_, _)
TotalRecords(mv, keys) ==
    IF keys = {} THEN 0
    ELSE LET key == CHOOSE x \in keys : TRUE
         IN  Len(mv[key]) + TotalRecords(mv, keys \ {key})

\* C2: when map_phase returns for compatible A (m x n) and B (n x p), it has
\* emitted exactly 2*m*n*p records, its keys are exactly the (i, j) with
\* 0 <= i < m and 0 <= j < p, and the group of (i, j) holds exactly 2n records:
\* for each k one ('A', k, A[i][k]) and one ('B', k, B[k][j]).
C2_MapperEmitsEveryContributionOnce ==
    (pc \in {"map_return", "reduce_enter"} /\ Compatible(matrix_a, matrix_b)) =>
        LET m == Len(matrix_a)
            n == Len(matrix_a[1])
            p == Len(matrix_b[1])
        IN  /\ TotalRecords(mapped_values, DOMAIN mapped_values) = 2 * m * n * p
            /\ DOMAIN mapped_values = (0..(m - 1)) \X (0..(p - 1))
            /\ \A key \in DOMAIN mapped_values :
                  /\ Len(mapped_values[key]) = 2 * n
                  /\ \A k \in 0..(n - 1) :
                        /\ Cardinality(Positions(mapped_values[key], "A", k)) = 1
                        /\ Cardinality(Positions(mapped_values[key], "B", k)) = 1
                        /\ \A pos \in Positions(mapped_values[key], "A", k) :
                              mapped_values[key][pos][3] = matrix_a[key[1] + 1][k + 1]
                        /\ \A pos \in Positions(mapped_values[key], "B", k) :
                              mapped_values[key][pos][3] = matrix_b[k + 1][key[2] + 1]

C2_Witness ==
    /\ pc = "reduce_enter"
    /\ matrix_a = <<<<1, 2>>, <<3, 4>>>>
    /\ matrix_b = <<<<5, 6>>, <<7, 8>>>>
    /\ TotalRecords(mapped_values, DOMAIN mapped_values) = 16

\* C3: when A is m x n and B is n' x p with n # n', map_phase fails with the
\* error that names both shapes, and no record is ever emitted and no result
\* is ever produced.
C3_MismatchFailsBeforeEmission ==
    ( /\ pc # "map_enter"
      /\ Rectangular(matrix_a)
      /\ Rectangular(matrix_b)
      /\ Len(matrix_b) # Len(matrix_a[1]) ) =>
        /\ pc = "failed"
        /\ error = ValueError(Len(matrix_a), Len(matrix_a[1]), Len(matrix_b), Len(matrix_b[1]))
        /\ mapped_values = EmptyDict
        /\ result_matrix = <<>>

C3_Witness ==
    /\ pc = "failed"
    /\ matrix_a = <<<<1, 2, 3>>, <<4, 5, 6>>>>
    /\ matrix_b = <<<<1, 2>>, <<3, 4>>>>
    /\ error.a_shape = <<2, 3>>
    /\ error.b_shape = <<2, 2>>

Ragged(M) == \E r \in 1..Len(M) : Len(M[r]) # Len(M[1])

\* C4: a matrix with rows of unequal length is rejected with a shape error
\* when it is constructed: it never reaches the map loops, the reducer or a
\* result, and a failure of such a run is the shape error, raised before any
\* record is emitted.
C4_RaggedRejectedAtConstruction ==
    (Ragged(matrix_a) \/ Ragged(matrix_b)) =>
        /\ pc \in {"read", "map_enter", "failed"}
        /\ pc = "failed" => (error.type = "ShapeError" /\ mapped_values = EmptyDict)

\* C5: when reduce_phase returns, the result has m rows of p cells and every
\* cell (i, j) has been assigned exactly once; no cell is ever assigned twice.
C5_EveryCellAssignedOnce ==
    /\ pc \in {"reduce", "returned"} => \A c \in DOMAIN assigned : assigned[c] <= 1
    /\ (pc = "returned" /\ Compatible(matrix_a, matrix_b)) =>
          LET m == Len(matrix_a)
              p == Len(matrix_b[1])
          IN  /\ Len(result_matrix) = m
              /\ \A i \in 1..m : Len(result_matrix[i]) = p
              /\ DOMAIN assigned = (0..(m - 1)) \X (0..(p - 1))
              /\ \A c \in DOMAIN assigned : assigned[c] = 1

C5_Witness ==
    /\ pc = "returned"
    /\ Len(matrix_a) = 2
    /\ Len(matrix_b[1]) = 2
    /\ \A c \in (0..1) \X (0..1) : assigned[c] = 1

\* C6: whatever the order in which the records of the mapper are grouped, the
\* result of reduce_phase is the one it returns for the order of map_phase.
C6_EmissionOrderIrrelevant ==
    pc = "returned" =>
        result_matrix = ReducePhase(MapPhase(matrix_a, matrix_b),
                                    <<Len(matrix_a), Len(matrix_b[1])>>)

C6_Witness ==
    /\ pc = "returned"
    /\ Len(matrix_a[1]) >= 2
    /\ mapped_values # MapPhase(matrix_a, matrix_b)
    /\ \E key \in DOMAIN mapped_values :
          /\ mapped_values[key][1][1] = "B"
          /\ mapped_values[key][Len(mapped_values[key])][1] = "A"

\* C7: a run that ends in failure has emitted no record, assembled no cell
\* of the result and written no output: the failure is raised before any map
\* or reduce work has begun.
C7_FailureBeforeAnyWork ==
    pc = "failed" =>
        /\ mapped_values = EmptyDict
        /\ result_matrix = <<>>
        /\ output = NoOutput

\* C8: workers reducing the groups in any order, their statements interleaved,
\* return the result matrix of the sequential loop over the sorted keys, and
\* a step changes a cell only if it is the write of the worker that holds the
\* key of that cell.
C8_AnyInterleavingSameResult ==
    /\ [](pc = "returned" => result_matrix = ReducePhase(mapped_values, dimensions))
    /\ [][pc = "reduce" =>
            \A c \in DOMAIN assigned :
                Cell(result_matrix', c[1], c[2]) # Cell(result_matrix, c[1], c[2]) =>
                    \E w \in DOMAIN workers :
                        /\ workers[w].key = c
                        /\ workers[w].pcw = "accumulate"
                        /\ workers'[w].pcw = "idle"]_vars

C8_Witness ==
    \E w \in DOMAIN workers : \E c \in DOMAIN assigned :
        /\ workers[w].pcw = "accumulate"
        /\ workers[w].pos = 2
        /\ assigned[c] = 1
        /\ KeyLess(workers[w].key, c)
        /\ \E v \in DOMAIN workers : v # w /\ workers[v].pcw = "accumulate"

\* The first blank line of a file.
Separator(ls) == CHOOSE idx \in 1..Len(ls) : ls[idx] = <<>> /\ \A h \in 1..(idx - 1) : ls[h] # <<>>

\* C9: for a file in the documented format, read_matrices_from_file returns
\* the rows before the empty line as matrix A and the rows after it as matrix B.
C9_ReaderSplitsAtSeparator ==
    pc # "read" =>
        /\ matrix_a = SubSeq(lines, 1, Separator(lines) - 1)
        /\ matrix_b = SubSeq(lines, Separator(lines) + 1, Len(lines))

\* The shared indices of the records of one origin, and the value the last
\* such record gives to an index.
Indices(values, origin) ==
    {values[pos][2] : pos \in {q \in 1..Len(values) : values[q][1] = origin}}
LastValue(values, origin, k) ==
    LET last == CHOOSE pos \in Positions(values, origin, k) :
                    \A q \in Positions(values, origin, k) : q <= pos
    IN  values[last][3]

RECURSIVE SharedSum(_, _)
SharedSum(values, ks) ==
    IF ks = {} THEN 0
    ELSE LET k == CHOOSE x \in ks : TRUE
         IN  LastValue(values, "A", k) * LastValue(values, "B", k)
             + SharedSum(values, ks \ {k})

\* C10: for any group, the cell is the sum, from 0, of a[k] * b[k] over the
\* shared indices k that occur in both an A record and a B record (a[k], b[k]
\* the values the group gives last); an index that occurs in one origin only
\* adds nothing, and no error is raised.
C10_OnlySharedIndicesContribute ==
    /\ pc # "failed"
    /\ error = NoError
    /\ pc = "returned" =>
          LET values == mapped_values[KeyOf(0, 0)]
          IN  result_matrix[1][1] =
                  SharedSum(values, Indices(values, "A") \cap Indices(values, "B"))

C10_Witness ==
    /\ pc = "returned"
    /\ LET values == mapped_values[KeyOf(0, 0)]
       IN  /\ Indices(values, "A") \cap Indices(values, "B") # {}
           /\ Indices(values, "A") \ Indices(values, "B") # {}
           /\ \A pos \in 1..Len(values) : values[pos][3] # 0
    /\ result_matrix[1][1] # 0

====
